---- MODULE Spec2Model ----
(***************************************************************************)
(* Model of the two Dota 2 utilities of the repository:                    *)
(*   - "Detectar wards.py": the tracked-item store (detectar_itens,        *)
(*     atualizar_overlay) and the region classifier obter_regiao_do_mapa;  *)
(*   - "kill-steal.py": the killsteal evaluation loop (KillStealManager).  *)
(* All times are in milliseconds.  Confidence and magic resistance are in  *)
(* hundredths (0.5 is 50, 0.25 is 25).                                     *)
(***************************************************************************)
EXTENDS Integers, Sequences, FiniteSets, TLC

VARIABLES
    \* ---- ward tracker ----
    now,            \* datetime.now(): the wall clock the callbacks read
    clock_reads,    \* how often the clock has advanced (bounded)
    next_detection, \* when root.after lets loop_principal run again
    tracked_items,  \* the global list tracked_items
    removed,        \* how many entries the last callback dropped from the list
    frame,          \* the raw detections (net.forward outputs) of the last pass
    active_messages,\* atualizar_overlay's local list of the lines it rendered
    last_op,        \* which callback ran last
    \* ---- region classifier called on its own ----
    region_args,    \* <<x, y, largura_tela, altura_tela>> of the last call
    region_out,     \* what obter_regiao_do_mapa returned for it
    \* ---- killsteal ----
    clock,          \* time.time()
    running,        \* KillStealManager.running
    enabled,        \* KillStealManager.enabled
    hotkey_pressed, \* whether the hotkey has called toggle_enabled yet
    pc,             \* where the _main_loop thread is
    use_console_commands,   \* GameInterface.use_console_commands
    hero_mana,      \* Hero.mana
    hero_channeling,\* Hero.channeling
    hero_invisible, \* Hero.invisible
    abilities,      \* Hero.abilities, in insertion order
    enemies,        \* KillStealManager.enemies
    last_check_time,\* KillStealManager.last_check_time
    cast_log,       \* the calls of GameInterface.cast_ability that the last
                    \* call of killsteal made, each with what it returns
    last_attempt,   \* current_time of the last tick that called the actuator
    pending_cast,   \* enemy, ability and current_time of the call of killsteal
                    \* that is in time.sleep(0.1) of _execute_console_command
    \* ---- ConfigManager ----
    heap,           \* the dict objects: heap[1] is ConfigManager.DEFAULT_CONFIG
    configs,        \* self.config (an object of the heap) of each ConfigManager
    loaded,         \* the file the last ConfigManager was constructed from
    config_op,      \* which operation of ConfigManager ran last
    \* ---- start() and stop() of KillStealManager ----
    check_interval, \* KillStealManager.check_interval
    threads,        \* every thread start() created: where it is in _main_loop
    thread,         \* self.thread: the number of the thread created last, or 0
    caller_pc,      \* where the thread that calls start() and stop() is
    join_deadline,  \* when the join of stop() in progress times out
    last_call       \* what the last call of start() or stop() did

wardVars == <<now, clock_reads, next_detection, tracked_items, removed, frame,
              active_messages, last_op>>
regionVars == <<region_args, region_out>>
killVars == <<clock, running, enabled, hotkey_pressed, pc, use_console_commands, hero_mana,
              hero_channeling, hero_invisible, abilities, enemies,
              last_check_time, cast_log, last_attempt, pending_cast>>
configVars == <<heap, configs, loaded, config_op>>
lifeVars == <<check_interval, threads, thread, caller_pc, join_deadline,
              last_call>>
vars == <<wardVars, regionVars, killVars, configVars, lifeVars>>

\* what the actions of one program leave alone
exceptWard == <<regionVars, killVars, configVars, lifeVars>>
exceptRegion == <<wardVars, killVars, configVars, lifeVars>>
exceptKill == <<wardVars, regionVars, configVars, lifeVars>>

(***************************************************************************)
(* Bounds of the model.                                                    *)
(***************************************************************************)
MaxClockReads == 3      \* clock advances explored
MaxItems == 2           \* entries the store is allowed to grow to
MaxDetections == 2      \* raw detections in one pass
FrameWidth == 100       \* pixel width of the captured window
FrameHeight == 100      \* pixel height of the captured window
MaxDim == 100           \* largest screen dimension given to the classifier
StartTime == 100000     \* time.time() when the killsteal manager is built
MaxTicks == 7           \* sleeps of the main loop explored
MaxActuatorFailures == 2 \* actuator calls that may raise in one tick
HealthUpdates == {150}   \* what callers of Enemy.update_health pass
MaxManagers == 2        \* ConfigManager objects constructed
MaxThreads == 3         \* threads start() may create
MaxLifeSteps == 12      \* steps of the clock while start() and stop() are called

(***************************************************************************)
(* Program constants of "Detectar wards.py".                               *)
(***************************************************************************)
CONFIDENCE_THRESHOLD == 50
DETECTION_INTERVAL_MS == 1500
OVERLAY_UPDATE_INTERVAL_MS == 500
DUPLICATE_THRESHOLD_SECONDS == 2

ObserverWard == "Observer Ward"
SentryWard == "Sentry Ward"
SmokeOfDeceit == "Smoke of Deceit"

\* ITEM_DURATIONS, in seconds
ITEM_DURATIONS ==
    (ObserverWard :> 360) @@ (SentryWard :> 420) @@ (SmokeOfDeceit :> 0)

Abs(n) == IF n < 0 THEN 0 - n ELSE n

(***************************************************************************)
(* obter_regiao_do_mapa.  nx = x / largura_tela and ny = y / altura_tela   *)
(* are compared with 0.15, 0.33, 0.66 and 0.85; with integer x and a       *)
(* positive largura_tela, nx < 0.33 is 100 * x < 33 * largura_tela.        *)
(***************************************************************************)
RegiaoDesconhecida == "Região Desconhecida"
RegiaoIndefinida == "Região Indefinida"

GridRegions ==
    { "Top Lane (Radiant)", "Top Jungle (Radiant/Mid)", "Top Lane/Jungle (Dire)",
      "Jungle (Radiant)", "Mid Lane (Radiant Side)", "Mid Lane (Centro)",
      "Mid Lane (Dire Side)", "Jungle (Dire)",
      "Bot Lane/Jungle (Radiant)", "Bot Jungle (Dire/Mid)", "Bot Lane (Dire)" }

Below(v, size, hundredths) == 100 * v < hundredths * size

\* the classifier with its zero-size test put on the coordinates
obter_regiao_zero_teste_trocado(x, y, largura_tela, altura_tela) ==
    IF x = 0 \/ y = 0 THEN RegiaoDesconhecida
    ELSE IF Below(y, altura_tela, 33) THEN
        IF Below(x, largura_tela, 33) THEN "Top Lane (Radiant)"
        ELSE IF Below(x, largura_tela, 66) THEN "Top Jungle (Radiant/Mid)"
        ELSE "Top Lane/Jungle (Dire)"
    ELSE IF Below(y, altura_tela, 66) THEN
        IF Below(x, largura_tela, 15) THEN "Jungle (Radiant)"
        ELSE IF Below(x, largura_tela, 33) THEN "Mid Lane (Radiant Side)"
        ELSE IF Below(x, largura_tela, 66) THEN "Mid Lane (Centro)"
        ELSE IF Below(x, largura_tela, 85) THEN "Mid Lane (Dire Side)"
        ELSE "Jungle (Dire)"
    ELSE
        IF Below(x, largura_tela, 33) THEN "Bot Lane/Jungle (Radiant)"
        ELSE IF Below(x, largura_tela, 66) THEN "Bot Jungle (Dire/Mid)"
        ELSE "Bot Lane (Dire)"

\* the classifier with the last cell of each band bounded by nx < 1.0
obter_regiao_com_lacuna(x, y, largura_tela, altura_tela) ==
    IF largura_tela = 0 \/ altura_tela = 0 THEN RegiaoDesconhecida
    ELSE IF Below(y, altura_tela, 33) THEN
        IF Below(x, largura_tela, 33) THEN "Top Lane (Radiant)"
        ELSE IF Below(x, largura_tela, 66) THEN "Top Jungle (Radiant/Mid)"
        ELSE IF Below(x, largura_tela, 100) THEN "Top Lane/Jungle (Dire)"
        ELSE RegiaoIndefinida
    ELSE IF Below(y, altura_tela, 66) THEN
        IF Below(x, largura_tela, 15) THEN "Jungle (Radiant)"
        ELSE IF Below(x, largura_tela, 33) THEN "Mid Lane (Radiant Side)"
        ELSE IF Below(x, largura_tela, 66) THEN "Mid Lane (Centro)"
        ELSE IF Below(x, largura_tela, 85) THEN "Mid Lane (Dire Side)"
        ELSE IF Below(x, largura_tela, 100) THEN "Jungle (Dire)"
        ELSE RegiaoIndefinida
    ELSE
        IF Below(x, largura_tela, 33) THEN "Bot Lane/Jungle (Radiant)"
        ELSE IF Below(x, largura_tela, 66) THEN "Bot Jungle (Dire/Mid)"
        ELSE IF Below(x, largura_tela, 100) THEN "Bot Lane (Dire)"
        ELSE RegiaoIndefinida

\* Every branch of the source's if/elif/else chain returns, so its final
\* statement (return "Região Indefinida") is written as no branch here.
obter_regiao_do_mapa(x, y, largura_tela, altura_tela) ==
    IF largura_tela = 0 \/ altura_tela = 0 THEN RegiaoDesconhecida
    ELSE IF Below(y, altura_tela, 33) THEN
        IF Below(x, largura_tela, 33) THEN "Top Lane (Radiant)"
        ELSE IF Below(x, largura_tela, 66) THEN "Top Jungle (Radiant/Mid)"
        ELSE "Top Lane/Jungle (Dire)"
    ELSE IF Below(y, altura_tela, 66) THEN
        IF Below(x, largura_tela, 15) THEN "Jungle (Radiant)"
        ELSE IF Below(x, largura_tela, 33) THEN "Mid Lane (Radiant Side)"
        ELSE IF Below(x, largura_tela, 66) THEN "Mid Lane (Centro)"
        ELSE IF Below(x, largura_tela, 85) THEN "Mid Lane (Dire Side)"
        ELSE "Jungle (Dire)"
    ELSE
        IF Below(x, largura_tela, 33) THEN "Bot Lane/Jungle (Radiant)"
        ELSE IF Below(x, largura_tela, 66) THEN "Bot Jungle (Dire/Mid)"
        ELSE "Bot Lane (Dire)"

(***************************************************************************)
(* detectar_itens.  A raw detection is one row of net.forward's outputs:   *)
(* its label (CLASSES[class_id]), its confidence and the pixel centre      *)
(* int(detection[0] * width), int(detection[1] * height).                  *)
(***************************************************************************)
OtherLabel == "Courier"     \* a class of classes.names that is not tracked

RawDetection(l, c, p) ==
    [label |-> l, confidence |-> c,
     center_x |-> (p[1] * FrameWidth) \div 100,
     center_y |-> (p[2] * FrameHeight) \div 100]

\* the rows a pass may see: each tracked kind, an observer ward in a second
\* region, and an untracked class at exactly the confidence threshold
FrameInputs ==
    { RawDetection(ObserverWard, 90, <<10, 10>>),
      RawDetection(ObserverWard, 90, <<50, 50>>),
      RawDetection(SentryWard, 90, <<10, 10>>),
      RawDetection(SmokeOfDeceit, 90, <<10, 10>>),
      RawDetection(OtherLabel, CONFIDENCE_THRESHOLD, <<10, 10>>) }

Frames ==
    UNION { [1..n -> FrameInputs] : n \in 0..MaxDetections }

\* the scan with a window of one second instead of DUPLICATE_THRESHOLD_SECONDS
is_duplicate_janela_curta(items, item_name, regiao, current_time) ==
    \E i \in 1..Len(items) :
        /\ items[i].name = item_name
        /\ items[i].region = regiao
        /\ Abs(current_time - items[i].added_time) < 1000

\* the scan without its test of the time difference
is_duplicate_sem_janela(items, item_name, regiao, current_time) ==
    \E i \in 1..Len(items) :
        /\ items[i].name = item_name
        /\ items[i].region = regiao

\* lines 184-192: the scan of tracked_items for a similar recent entry
is_duplicate(items, item_name, regiao, current_time) ==
    \E i \in 1..Len(items) :
        /\ items[i].name = item_name
        /\ items[i].region = regiao
        /\ Abs(current_time - items[i].added_time)
              < DUPLICATE_THRESHOLD_SECONDS * 1000

\* lines 166-195: the list "detections" built from the outputs of one pass
RECURSIVE collect_detections(_, _, _, _)
collect_detections(outputs, items, current_time, width_height) ==
    IF outputs = <<>> THEN <<>>
    ELSE
        LET detection == Head(outputs)
            regiao == obter_regiao_do_mapa(detection.center_x, detection.center_y,
                                           width_height[1], width_height[2])
            rest == collect_detections(Tail(outputs), items, current_time,
                                       width_height)
        IN  IF /\ detection.confidence > CONFIDENCE_THRESHOLD
               /\ detection.label \in DOMAIN ITEM_DURATIONS
               /\ ~ is_duplicate(items, detection.label, regiao, current_time)
            THEN <<[name |-> detection.label, region |-> regiao,
                    time |-> current_time]>> \o rest
            ELSE rest

\* the second loop without its test of the duration
add_detections_sem_duracao(items, detections) ==
    items \o
    [i \in 1..Len(detections) |->
        [id |-> <<detections[i].name, detections[i].region, detections[i].time>>,
         name |-> detections[i].name,
         expiry |-> detections[i].time + ITEM_DURATIONS[detections[i].name] * 1000,
         region |-> detections[i].region,
         added_time |-> detections[i].time]]

\* lines 201-224: append every detection of a kind that has a duration
RECURSIVE add_detections(_, _)
add_detections(items, detections) ==
    IF detections = <<>> THEN items
    ELSE
        LET detected == Head(detections)
            duration == ITEM_DURATIONS[detected.name]
            new_item_data ==
                [id |-> <<detected.name, detected.region, detected.time>>,
                 name |-> detected.name,
                 expiry |-> detected.time + duration * 1000,
                 region |-> detected.region,
                 added_time |-> detected.time]
        IN  add_detections(IF duration > 0 THEN Append(items, new_item_data)
                                           ELSE items,
                           Tail(detections))

\* the store after one pass of detectar_itens over the given outputs
detectar_itens_result(items, outputs, current_time) ==
    add_detections(items,
        collect_detections(outputs, items, current_time,
                           <<FrameWidth, FrameHeight>>))

(***************************************************************************)
(* atualizar_overlay: lines 297-309.                                       *)
(***************************************************************************)
remaining_ms(item, current_time) == item.expiry - current_time

\* the sweep keeping entries whose remaining time is zero
valid_items_with_zero(items, current_time) ==
    SelectSeq(items, LAMBDA item : remaining_ms(item, current_time) >= 0)

valid_items_of(items, current_time) ==
    SelectSeq(items, LAMBDA item : remaining_ms(item, current_time) > 0)

\* the message of an entry with its seconds rounded up
message_rounded_up(item, current_time) ==
    LET whole == (remaining_ms(item, current_time) + 999) \div 1000
    IN  [name |-> item.name, region |-> item.region,
         minutes |-> whole \div 60, seconds |-> whole % 60]

\* minutes, seconds = divmod(int(remaining_seconds), 60), for remaining > 0
message_of(item, current_time) ==
    LET whole == remaining_ms(item, current_time) \div 1000
    IN  [name |-> item.name, region |-> item.region,
         minutes |-> whole \div 60, seconds |-> whole % 60]

active_messages_of(items, current_time) ==
    LET valid == valid_items_of(items, current_time)
    IN  [i \in 1..Len(valid) |-> message_of(valid[i], current_time)]

(***************************************************************************)
(* Actions of the ward tracker.  Both callbacks run on the Tk main loop,   *)
(* one at a time; each reads datetime.now() once.  loop_principal asks     *)
(* root.after to run it again DETECTION_INTERVAL_MS after a pass.          *)
(***************************************************************************)
\* what the clock may advance by between two callbacks: the period of the
\* overlay timer, and a long wait that brings an observer ward close to its
\* expiry
ClockSteps ==
    { OVERLAY_UPDATE_INTERVAL_MS,
      ITEM_DURATIONS[ObserverWard] * 1000 - 2 * OVERLAY_UPDATE_INTERVAL_MS }

WardInit ==
    /\ now = 0
    /\ clock_reads = 0
    /\ next_detection = 0
    /\ tracked_items = <<>>
    /\ removed = 0
    /\ frame = <<>>
    /\ active_messages = <<>>
    /\ last_op = "start"

AdvanceClock ==
    /\ clock_reads < MaxClockReads
    /\ \E d \in ClockSteps : now' = now + d
    /\ clock_reads' = clock_reads + 1
    /\ last_op' = "clock"
    /\ removed' = 0
    /\ frame' = <<>>
    /\ active_messages' = <<>>
    /\ UNCHANGED <<tracked_items, next_detection>>

\* captura_tela returned None, or net.forward raised: the pass is skipped
detectar_itens_skipped ==
    /\ now >= next_detection
    /\ next_detection' = now + DETECTION_INTERVAL_MS
    /\ last_op' = "detect_skipped"
    /\ removed' = 0
    /\ frame' = <<>>
    /\ active_messages' = <<>>
    /\ UNCHANGED <<now, clock_reads, tracked_items>>

detectar_itens ==
    \E outputs \in Frames :
        LET result == detectar_itens_result(tracked_items, outputs, now)
        IN  /\ now >= next_detection
            /\ next_detection' = now + DETECTION_INTERVAL_MS
            /\ Len(result) <= MaxItems
            /\ tracked_items' = result
            /\ removed' = 0
            /\ frame' = outputs
            /\ last_op' = "detect"
            /\ active_messages' = <<>>
            /\ UNCHANGED <<now, clock_reads>>

atualizar_overlay ==
    /\ tracked_items' = valid_items_of(tracked_items, now)
    /\ active_messages' = active_messages_of(tracked_items, now)
    /\ removed' = Len(tracked_items) - Len(tracked_items')
    /\ frame' = <<>>
    /\ last_op' = "overlay"
    /\ UNCHANGED <<now, clock_reads, next_detection>>

NotCalled == "(not called)"

RegionIdle ==
    /\ region_args = <<0, 0, 0, 0>>
    /\ region_out = NotCalled

WardNext ==
    \/ AdvanceClock /\ UNCHANGED exceptWard
    \/ detectar_itens_skipped /\ UNCHANGED exceptWard
    \/ detectar_itens /\ UNCHANGED exceptWard
    \/ atualizar_overlay /\ UNCHANGED exceptWard

(***************************************************************************)
(* The two callbacks called directly at the clock readings of the          *)
(* scenarios: a re-detection 1.0 s after the first detection, the passes   *)
(* loop_principal makes 1.5 s and 3.0 s after the first, and a sweep one   *)
(* second after an observer ward's lifetime.                               *)
(***************************************************************************)
Timeline ==
    { 1000, DETECTION_INTERVAL_MS, 2 * DETECTION_INTERVAL_MS,
      ITEM_DURATIONS[ObserverWard] * 1000 + 1000 }

\* the rows of these passes: a ward of either kind at normalized (0.1, 0.1)
TimelineInputs ==
    { RawDetection(ObserverWard, 90, <<10, 10>>),
      RawDetection(SentryWard, 90, <<10, 10>>) }

TimelineFrames ==
    UNION { [1..n -> TimelineInputs] : n \in 0..MaxDetections }

\* datetime.now() at the next call is a later reading of the timeline
AdvanceClockTo ==
    /\ \E t \in Timeline : t > now /\ now' = t
    /\ last_op' = "clock"
    /\ removed' = 0
    /\ frame' = <<>>
    /\ active_messages' = <<>>
    /\ UNCHANGED <<clock_reads, tracked_items, next_detection>>

\* one call of detectar_itens at the current reading of the clock
detectar_itens_direct ==
    \E outputs \in TimelineFrames :
        LET result == detectar_itens_result(tracked_items, outputs, now)
        IN  /\ Len(result) <= MaxItems
            /\ tracked_items' = result
            /\ next_detection' = now + DETECTION_INTERVAL_MS
            /\ removed' = 0
            /\ frame' = outputs
            /\ last_op' = "detect"
            /\ active_messages' = <<>>
            /\ UNCHANGED <<now, clock_reads>>

TimelineNext ==
    \/ AdvanceClockTo /\ UNCHANGED exceptWard
    \/ detectar_itens_direct /\ UNCHANGED exceptWard
    \/ atualizar_overlay /\ UNCHANGED exceptWard

(***************************************************************************)
(* The region classifier on its own: every call with a screen of up to     *)
(* MaxDim pixels and a pixel inside it (x / largura_tela in [0, 1]).       *)
(***************************************************************************)
Dims == {0, 1, 3, 20, MaxDim}

RegionInputs ==
    UNION { { <<x, y, w, h>> : x \in 0..w, y \in 0..h } : w \in Dims, h \in Dims }

\* one call of the classifier, with any of the inputs
classify ==
    /\ region_out = NotCalled
    /\ \E a \in RegionInputs :
        /\ region_args' = a
        /\ region_out' = obter_regiao_do_mapa(a[1], a[2], a[3], a[4])
    /\ UNCHANGED exceptRegion

RegionNext == classify


(***************************************************************************)
(* kill-steal.py.  Program constants.                                      *)
(***************************************************************************)
CHECK_INTERVAL_MS == 500            \* DEFAULT_CONFIG["check_interval"] = 0.5
KILLSTEAL_COOLDOWN_MS == 3000       \* DEFAULT_CONFIG["killsteal_cooldown"] = 3.0
DEFAULT_COOLDOWN_SECONDS == 10      \* ability_data.get("cooldown", 10)
CONSOLE_SLEEP_MS == 100             \* time.sleep(0.1) of _execute_console_command

\* Ability.__init__ with the entries of DEFAULT_CONFIG for npc_dota_hero_lina
Ability(name, damage, mana_cost, cooldown) ==
    [name |-> name, damage |-> damage, mana_cost |-> mana_cost,
     cooldown |-> cooldown, last_cast_time |-> 0]

LinaAbilities ==
    << Ability("lina_dragon_slave", 280, 100, DEFAULT_COOLDOWN_SECONDS),
       Ability("lina_light_strike_array", 250, 110, DEFAULT_COOLDOWN_SECONDS),
       Ability("lina_laguna_blade", 850, 280, DEFAULT_COOLDOWN_SECONDS) >>

\* Hero.abilities when the configuration file gives the hero one ability with
\* "mana_cost": 120 and "cooldown": 3 (lines 218-225)
ConfiguredAbilities ==
    << Ability("lina_dragon_slave", 280, 120, 3) >>

Enemy(name, health, magic_resistance) ==
    [name |-> name, health |-> health, magic_resistance |-> magic_resistance]

\* GameInterface.get_game_state: the simulated state of the source
SimulatedGameState ==
    [hero_mana |-> 1000, hero_channeling |-> FALSE, hero_invisible |-> FALSE,
     enemies |-> << Enemy("enemy1", 500, 25), Enemy("enemy2", 200, 30),
                    Enemy("enemy3", 100, 20) >>]

\* what a state source may report besides: a channeling or invisible hero, a
\* hero short of mana, a dead enemy first in the list, two enemies that
\* both qualify with the weaker one second, one enemy just below and one
\* exactly at the effective damage of a 280 damage ability, and a weak enemy
\* before a hero with 100 mana
GameStates ==
    { SimulatedGameState,
      [SimulatedGameState EXCEPT !.hero_channeling = TRUE],
      [SimulatedGameState EXCEPT !.hero_invisible = TRUE],
      [SimulatedGameState EXCEPT !.hero_mana = 90],
      [SimulatedGameState EXCEPT
          !.enemies = << Enemy("enemy1", 0, 25), Enemy("enemy2", 100, 0) >>],
      [SimulatedGameState EXCEPT
          !.enemies = << Enemy("enemy1", 200, 0), Enemy("enemy2", 50, 0) >>],
      [SimulatedGameState EXCEPT
          !.hero_mana = 105,
          !.enemies = << Enemy("enemy1", 200, 0), Enemy("enemy2", 50, 0) >>],
      [SimulatedGameState EXCEPT
          !.hero_mana = 200, !.enemies = << Enemy("enemy1", 209, 25) >>],
      [SimulatedGameState EXCEPT
          !.hero_mana = 200, !.enemies = << Enemy("enemy1", 210, 25) >>],
      [SimulatedGameState EXCEPT
          !.hero_mana = 100, !.enemies = << Enemy("enemy1", 10, 0) >>] }

\* is_ready with a test that is not strict
is_ready_nao_estrito(ability, t) ==
    t - ability.last_cast_time >= ability.cooldown * 1000

\* Ability.is_ready at time t
is_ready(ability, t) == t - ability.last_cast_time > ability.cooldown * 1000

\* Ability.get_effective_damage, times 100
get_effective_damage(ability, magic_resistance) ==
    ability.damage * (100 - magic_resistance)

\* Enemy.is_alive
is_alive(enemy) == enemy.health > 0

\* KillStealManager.can_cast_skill at time t
can_cast_skill(mana, skill, t) == mana >= skill.mana_cost /\ is_ready(skill, t)

\* should_cast_skill with a test that is not strict
should_cast_skill_nao_estrito(enemy, skill) ==
    enemy.health * 100 <= get_effective_damage(skill, enemy.magic_resistance)

\* KillStealManager.should_cast_skill
should_cast_skill(enemy, skill) ==
    enemy.health * 100 < get_effective_damage(skill, enemy.magic_resistance)

\* where pyautogui raises in one call of cast_ability: nowhere, in its first
\* call (press, line 389 or 363) or in a later one (lines 393-397 or 368)
RaisePoints == {"none", "press", "later"}

\* the raise point of the k-th call of cast_ability of a tick, given those of
\* the first calls
raise_point(raising, k) == IF k <= Len(raising) THEN raising[k] ELSE "none"

\* GameInterface.cast_ability: with console commands every exception is
\* caught inside _execute_console_command; with simulated keys an exception
\* of pyautogui makes it return False
cast_ability(console, raises) == IF console THEN TRUE ELSE raises = "none"

\* _execute_console_command reaches time.sleep(0.1) unless the press that
\* opens the console raises
console_sleeps(console, raises) == console /\ raises # "press"

\* Hero.cast applying the bookkeeping whether or not the actuator succeeded
Hero_cast_sem_teste(st, a, e, console, raises) ==
    IF ~ is_ready(st.abilities[a], st.clock)
          \/ st.mana < st.abilities[a].mana_cost
    THEN [st EXCEPT !.success = FALSE]
    ELSE
        LET success == cast_ability(console, raises)
            after == IF console_sleeps(console, raises)
                     THEN st.clock + CONSOLE_SLEEP_MS ELSE st.clock
        IN  [st EXCEPT
                !.success = success,
                !.clock = after,
                !.log = Append(@, [enemy |-> e, ability |-> a,
                                   success |-> success]),
                !.abilities[a].last_cast_time = after,
                !.mana = @ - st.abilities[a].mana_cost]

\* Hero.cast on the running state st of a tick: ability number a on enemy
\* number e
Hero_cast(st, a, e, console, raises) ==
    IF ~ is_ready(st.abilities[a], st.clock)
          \/ st.mana < st.abilities[a].mana_cost
    THEN [st EXCEPT !.success = FALSE]
    ELSE
        LET success == cast_ability(console, raises)
            after == IF console_sleeps(console, raises)
                     THEN st.clock + CONSOLE_SLEEP_MS ELSE st.clock
        IN  IF success
            THEN [st EXCEPT
                    !.success = TRUE,
                    !.clock = after,
                    !.log = Append(@, [enemy |-> e, ability |-> a,
                                       success |-> TRUE]),
                    !.abilities[a].last_cast_time = after,
                    !.mana = @ - st.abilities[a].mana_cost]
            ELSE [st EXCEPT
                    !.success = FALSE,
                    !.clock = after,
                    !.log = Append(@, [enemy |-> e, ability |-> a,
                                       success |-> FALSE])]

\* the two nested loops with no test of the hero's mana anywhere
RECURSIVE killsteal_loop_sem_mana(_, _, _, _, _, _, _)
killsteal_loop_sem_mana(st, enemy_list, e, a, current_time, console, raising) ==
    IF e > Len(enemy_list) THEN st
    ELSE IF ~ is_alive(enemy_list[e]) \/ a > Len(st.abilities)
    THEN killsteal_loop_sem_mana(st, enemy_list, e + 1, 1, current_time,
                                 console, raising)
    ELSE IF /\ is_ready(st.abilities[a], st.clock)
            /\ should_cast_skill(enemy_list[e], st.abilities[a])
    THEN LET raises == raise_point(raising, Len(st.log) + 1)
             success == cast_ability(console, raises)
             after == IF console_sleeps(console, raises)
                      THEN st.clock + CONSOLE_SLEEP_MS ELSE st.clock
             logged == [st EXCEPT
                          !.success = success,
                          !.clock = after,
                          !.log = Append(@, [enemy |-> e, ability |-> a,
                                             success |-> success])]
         IN  IF success
             THEN [logged EXCEPT
                      !.abilities[a].last_cast_time = after,
                      !.mana = @ - st.abilities[a].mana_cost,
                      !.last_check_time = current_time]
             ELSE killsteal_loop_sem_mana(logged, enemy_list, e, a + 1,
                                          current_time, console, raising)
    ELSE killsteal_loop_sem_mana(st, enemy_list, e, a + 1, current_time,
                                 console, raising)

\* lines 548-557: the two nested loops from enemy e, ability a on, run with
\* no other thread in between; raising[k] is where the k-th call of the
\* actuator raises
RECURSIVE killsteal_loop(_, _, _, _, _, _, _)
killsteal_loop(st, enemy_list, e, a, current_time, console, raising) ==
    IF e > Len(enemy_list) THEN st
    ELSE IF ~ is_alive(enemy_list[e]) \/ a > Len(st.abilities)
    THEN killsteal_loop(st, enemy_list, e + 1, 1, current_time, console, raising)
    ELSE IF /\ can_cast_skill(st.mana, st.abilities[a], st.clock)
            /\ should_cast_skill(enemy_list[e], st.abilities[a])
    THEN LET r == Hero_cast(st, a, e, console,
                           raise_point(raising, Len(st.log) + 1))
         IN  IF r.success
             THEN [r EXCEPT !.last_check_time = current_time]
             ELSE killsteal_loop(r, enemy_list, e, a + 1, current_time,
                                 console, raising)
    ELSE killsteal_loop(st, enemy_list, e, a + 1, current_time, console, raising)

\* killsteal stamping last_check_time before its gate on the hero's state
killsteal_result_carimba_antes(st, enemy_list, channeling, invisible, console, raising) ==
    IF st.clock - st.last_check_time < KILLSTEAL_COOLDOWN_MS THEN st
    ELSE IF channeling \/ invisible
    THEN [st EXCEPT !.last_check_time = st.clock]
    ELSE killsteal_loop(st, enemy_list, 1, 1, st.clock, console, raising)

\* KillStealManager.killsteal called when time.time() is st.clock and run
\* with no other thread in between
killsteal_result(st, enemy_list, channeling, invisible, console, raising) ==
    IF st.clock - st.last_check_time < KILLSTEAL_COOLDOWN_MS THEN st
    ELSE IF channeling \/ invisible THEN st
    ELSE killsteal_loop(st, enemy_list, 1, 1, st.clock, console, raising)

(***************************************************************************)
(* Actions of the killsteal manager.  _main_loop runs on its own thread;   *)
(* toggle_enabled is called from the keyboard hook's thread.               *)
(***************************************************************************)
\* no call of killsteal is waiting in the console
NoCast == [enemy |-> 0, ability |-> 0, current_time |-> 0]

\* the raise points of the first calls of the actuator in one tick: the
\* first n calls raise, all at the same point (with simulated keys the two
\* points end a call alike, and with console commands a tick makes one call)
RaisePatterns ==
    { [k \in 1..n |-> at] : n \in 0..MaxActuatorFailures,
                            at \in RaisePoints \ {"none"} }

KillInit ==
    /\ clock = StartTime
    /\ running = FALSE
    /\ enabled = FALSE
    /\ hotkey_pressed = FALSE
    /\ pc = "idle"
    /\ use_console_commands \in BOOLEAN
    /\ hero_mana = 1000
    /\ hero_channeling = FALSE
    /\ hero_invisible = FALSE
    /\ abilities \in {LinaAbilities, ConfiguredAbilities}
    /\ enemies = <<>>
    /\ last_check_time = 0
    /\ cast_log = <<>>
    /\ last_attempt = -1
    /\ pending_cast = NoCast

KillIdle ==
    KillInit /\ use_console_commands = TRUE /\ abilities = LinaAbilities

\* start(): the thread begins at the top of _main_loop.  The thread followed
\* here is one at a time: a start() while a stopped thread has not ended is
\* among the behaviours of SpecLife.
start ==
    /\ ~ running
    /\ pc \in {"idle", "exit"}
    /\ running' = TRUE
    /\ pc' = "check"
    /\ UNCHANGED <<clock, enabled, hotkey_pressed, use_console_commands, hero_mana,
                   hero_channeling, hero_invisible, abilities, enemies,
                   last_check_time, cast_log, last_attempt, pending_cast>>

\* stop(): self.running = False; the join and save_config write none of
\* these variables
stop ==
    /\ running
    /\ running' = FALSE
    /\ UNCHANGED <<clock, enabled, hotkey_pressed, pc, use_console_commands,
                   hero_mana, hero_channeling, hero_invisible, abilities,
                   enemies, last_check_time, cast_log, last_attempt,
                   pending_cast>>

\* Enemy.update_health on an enemy of the list.  Nothing in the program calls
\* it: it is a step of CallerNext, not of KillNext.
update_health ==
    /\ \E i \in 1..Len(enemies) : \E health \in HealthUpdates :
          /\ enemies[i].health # health
          /\ enemies' = [enemies EXCEPT ![i].health = health]
    /\ UNCHANGED <<clock, running, enabled, hotkey_pressed, pc,
                   use_console_commands, hero_mana, hero_channeling,
                   hero_invisible, abilities, last_check_time, cast_log,
                   last_attempt, pending_cast>>

toggle_enabled ==
    /\ enabled' = ~ enabled
    /\ hotkey_pressed' = TRUE
    /\ UNCHANGED <<clock, running, pc, use_console_commands, hero_mana,
                   hero_channeling, hero_invisible, abilities, enemies,
                   last_check_time, cast_log, last_attempt, pending_cast>>

\* the loop entering its tick whatever the flag says
main_loop_check_sem_enabled ==
    /\ pc = "check"
    /\ pc' = IF ~ running THEN "exit" ELSE "update"
    /\ UNCHANGED <<clock, running, enabled, hotkey_pressed, use_console_commands,
                   hero_mana, hero_channeling, hero_invisible, abilities,
                   enemies, last_check_time, cast_log, last_attempt, pending_cast>>

\* while self.running: if self.enabled:
main_loop_check ==
    /\ pc = "check"
    /\ pc' = IF ~ running THEN "exit"
             ELSE IF enabled THEN "update" ELSE "sleep"
    /\ UNCHANGED <<clock, running, enabled, hotkey_pressed, use_console_commands, hero_mana,
                   hero_channeling, hero_invisible, abilities, enemies,
                   last_check_time, cast_log, last_attempt, pending_cast>>

update_game_state ==
    /\ pc = "update"
    /\ \E game_state \in GameStates :
        /\ hero_mana' = game_state.hero_mana
        /\ hero_channeling' = game_state.hero_channeling
        /\ hero_invisible' = game_state.hero_invisible
        /\ enemies' = game_state.enemies
    /\ pc' = "killsteal"
    /\ UNCHANGED <<clock, running, enabled, hotkey_pressed, use_console_commands, abilities,
                   last_check_time, cast_log, last_attempt, pending_cast>>

\* killsteal() from its entry to its return or, when a console command is
\* under way, to time.sleep(0.1) of line 390: nothing is written before that
\* sleep, and with console commands the call of cast_ability that sleeps is
\* the only one of the tick, since it returns True
killsteal ==
    /\ pc = "killsteal"
    /\ \E raising \in RaisePatterns :
        LET st == [mana |-> hero_mana, abilities |-> abilities, clock |-> clock,
                   last_check_time |-> last_check_time, log |-> <<>>,
                   success |-> FALSE]
            r == killsteal_result(st, enemies, hero_channeling, hero_invisible,
                                  use_console_commands, raising)
        IN  IF r.clock # clock
            THEN /\ pc' = "console"
                 /\ pending_cast' = [enemy |-> r.log[1].enemy,
                                     ability |-> r.log[1].ability,
                                     current_time |-> clock]
                 /\ cast_log' = r.log
                 /\ last_attempt' = clock
                 /\ UNCHANGED <<hero_mana, abilities, clock, last_check_time>>
            ELSE /\ pc' = "sleep"
                 /\ hero_mana' = r.mana
                 /\ abilities' = r.abilities
                 /\ clock' = r.clock
                 /\ last_check_time' = r.last_check_time
                 /\ cast_log' = r.log
                 /\ last_attempt' = IF r.log # <<>> THEN clock ELSE last_attempt
                 /\ pending_cast' = NoCast
    /\ UNCHANGED <<running, enabled, hotkey_pressed, use_console_commands, hero_channeling,
                   hero_invisible, enemies>>

\* the rest of that call of killsteal once time.sleep(0.1) is over: the
\* command is written (lines 393-397), cast_ability returns True, Hero.cast
\* records the cast (lines 277-278) and killsteal stamps last_check_time with
\* the current_time it read when it was entered (lines 556-557)
killsteal_resume ==
    /\ pc = "console"
    /\ clock' = clock + CONSOLE_SLEEP_MS
    /\ abilities' = [abilities EXCEPT
                        ![pending_cast.ability].last_cast_time = clock']
    /\ hero_mana' = hero_mana - abilities[pending_cast.ability].mana_cost
    /\ last_check_time' = pending_cast.current_time
    /\ pending_cast' = NoCast
    /\ pc' = "sleep"
    /\ UNCHANGED <<running, enabled, hotkey_pressed, use_console_commands,
                   hero_channeling, hero_invisible, enemies, cast_log,
                   last_attempt>>

\* time.sleep(self.check_interval)
main_loop_sleep ==
    /\ pc = "sleep"
    /\ clock + CHECK_INTERVAL_MS <= StartTime + MaxTicks * CHECK_INTERVAL_MS
                                       + CONSOLE_SLEEP_MS
    /\ clock' = clock + CHECK_INTERVAL_MS
    /\ pc' = "check"
    /\ UNCHANGED <<running, enabled, hotkey_pressed, use_console_commands, hero_mana,
                   hero_channeling, hero_invisible, abilities, enemies,
                   last_check_time, cast_log, last_attempt, pending_cast>>

KillNext ==
    \/ start /\ UNCHANGED exceptKill
    \/ stop /\ UNCHANGED exceptKill
    \/ toggle_enabled /\ UNCHANGED exceptKill
    \/ main_loop_check /\ UNCHANGED exceptKill
    \/ update_game_state /\ UNCHANGED exceptKill
    \/ killsteal /\ UNCHANGED exceptKill
    \/ killsteal_resume /\ UNCHANGED exceptKill
    \/ main_loop_sleep /\ UNCHANGED exceptKill

\* the manager in the hands of a caller that also writes the health of the
\* enemies through Enemy.update_health
CallerNext ==
    \/ KillNext
    \/ update_health /\ UNCHANGED exceptKill

(***************************************************************************)
(* ConfigManager.  A dict is an object of the heap: a function from its    *)
(* keys to values.  A value is a scalar (numbers, strings, booleans and    *)
(* lists, which no operation looks into, are written as strings) or a      *)
(* reference to a dict object.  What json.load returns is a tree: a dict   *)
(* of a file is the sequence of its (key, value) pairs in file order.      *)
(***************************************************************************)
Val(s) == [kind |-> "value", value |-> s]
Ref(i) == [kind |-> "dict", ref |-> i]
JsonDict(items) == [kind |-> "dict", items |-> items]
Pair(k, v) == [k |-> k, v |-> v]
EmptyDict == [k \in {} |-> Val("")]

\* the objects the class statement creates: heap[1] is DEFAULT_CONFIG and
\* heap[2] the dict under its key "hero_abilities"
DefaultHeroAbilities ==
    ("npc_dota_hero_lina" :> Val("[dragon_slave, light_strike_array, laguna_blade]"))
    @@ ("npc_dota_hero_lion" :> Val("[impale, finger_of_death]"))

DEFAULT_CONFIG ==
    ("dota_window_title" :> Val("Dota 2"))
    @@ ("check_interval" :> Val("0.5"))
    @@ ("killsteal_cooldown" :> Val("3.0"))
    @@ ("enable_hotkey" :> Val("F8"))
    @@ ("debug_mode" :> Val("False"))
    @@ ("use_console_commands" :> Val("True"))
    @@ ("console_command_prefix" :> Val("dota_execute"))
    @@ ("hero_abilities" :> Ref(2))

InitialHeap == << DEFAULT_CONFIG, DefaultHeroAbilities >>

\* _deep_update writing every value over the key, dict or not
RECURSIVE deep_update_raso(_, _, _)
deep_update_raso(h, d, items) ==
    IF items = <<>> THEN h
    ELSE
        LET k == Head(items).k
            v == Head(items).v
            n == Len(h) + 1
        IN  IF v.kind = "dict"
            THEN deep_update_raso(
                    [deep_update_raso(Append(h, EmptyDict), n, v.items)
                        EXCEPT ![d] = (k :> Ref(n)) @@ @],
                    d, Tail(items))
            ELSE deep_update_raso([h EXCEPT ![d] = (k :> v) @@ @], d, Tail(items))

\* _deep_update(d, u) on the heap h: d is a dict object, items the pairs of
\* u.  `d[k] = v` with v a dict of the file stores a reference to that dict,
\* which json.load created with v's contents.
RECURSIVE deep_update(_, _, _)
deep_update(h, d, items) ==
    IF items = <<>> THEN h
    ELSE
        LET k == Head(items).k
            v == Head(items).v
            n == Len(h) + 1
        IN  IF v.kind = "dict" /\ k \in DOMAIN h[d] /\ h[d][k].kind = "dict"
            THEN deep_update(deep_update(h, h[d][k].ref, v.items), d, Tail(items))
            ELSE IF v.kind = "dict"
            THEN deep_update(
                    [deep_update(Append(h, EmptyDict), n, v.items)
                        EXCEPT ![d] = (k :> Ref(n)) @@ @],
                    d, Tail(items))
            ELSE deep_update([h EXCEPT ![d] = (k :> v) @@ @], d, Tail(items))

\* a configuration file: absent, not JSON, or holding a JSON value
ConfigFile(exists, parses, json) ==
    [exists |-> exists, parses |-> parses, json |-> json]

NoFile == ConfigFile(FALSE, FALSE, JsonDict(<<>>))

ConfigFiles ==
    { NoFile,
      ConfigFile(TRUE, FALSE, JsonDict(<<>>)),
      ConfigFile(TRUE, TRUE, Val("[1, 2]")),
      ConfigFile(TRUE, TRUE, JsonDict(<<>>)),
      ConfigFile(TRUE, TRUE,
          JsonDict(<< Pair("check_interval", Val("1.0")),
                      Pair("theme", Val("dark")) >>)),
      ConfigFile(TRUE, TRUE,
          JsonDict(<< Pair("hero_abilities",
              JsonDict(<< Pair("npc_dota_hero_lina", Val("[custom]")) >>)) >>)),
      ConfigFile(TRUE, TRUE,
          JsonDict(<< Pair("hero_abilities",
              JsonDict(<< Pair("npc_dota_hero_axe", Val("[culling_blade]")) >>)) >>)),
      ConfigFile(TRUE, TRUE,
          JsonDict(<< Pair("hero_abilities", Val("none")) >>)),
      ConfigFile(TRUE, TRUE,
          JsonDict(<< Pair("debug_mode",
              JsonDict(<< Pair("level", Val("2")) >>)) >>)) }

\* _load_config: the heap afterwards and the object that becomes self.config.
\* A JSON value that is no dict makes _deep_update raise before it writes
\* (u.items()), and the except clause leads to the defaults as well.
load_config(h, file) ==
    LET copy == Append(h, h[1])
        config == Len(h) + 1
    IN  IF file.exists /\ file.parses /\ file.json.kind = "dict"
        THEN [heap |-> deep_update(copy, config, file.json.items),
              config |-> config]
        ELSE [heap |-> copy, config |-> config]

\* ConfigManager.set(key, value) with key.split('.') given as keys
RECURSIVE set(_, _, _, _)
set(h, config, keys, value) ==
    IF Len(keys) = 1
    THEN [h EXCEPT ![config] = (keys[1] :> value) @@ @]
    ELSE
        LET k == Head(keys)
            n == Len(h) + 1
        IN  IF k \notin DOMAIN h[config] \/ h[config][k].kind # "dict"
            THEN set([Append(h, EmptyDict) EXCEPT ![config] = (k :> Ref(n)) @@ @],
                     n, Tail(keys), value)
            ELSE set(h, h[config][k].ref, Tail(keys), value)

\* the keys and the value the calls of set are made with
SetKeys ==
    { << "debug_mode" >>,
      << "hero_abilities", "npc_dota_hero_lina" >>,
      << "hotkeys", "toggle" >> }

SetValue == Val("changed")

ConfigInit ==
    /\ heap = InitialHeap
    /\ configs = <<>>
    /\ loaded = NoFile
    /\ config_op = "none"

\* ConfigManager(config_file)
ConfigManager_init ==
    /\ Len(configs) < MaxManagers
    /\ \E file \in ConfigFiles :
        LET r == load_config(heap, file)
        IN  /\ heap' = r.heap
            /\ configs' = Append(configs, r.config)
            /\ loaded' = file
    /\ config_op' = "init"

\* ConfigManager.set on one of the managers
ConfigManager_set ==
    /\ \E m \in 1..Len(configs) : \E keys \in SetKeys :
          heap' = set(heap, configs[m], keys, SetValue)
    /\ config_op' = "set"
    /\ UNCHANGED <<configs, loaded>>

ConfigNext ==
    \/ ConfigManager_init /\ UNCHANGED <<wardVars, regionVars, killVars, lifeVars>>
    \/ ConfigManager_set /\ UNCHANGED <<wardVars, regionVars, killVars, lifeVars>>

(***************************************************************************)
(* start() and stop() of KillStealManager, called one after the other by   *)
(* one thread, and the threads they create.  The hotkey is not pressed, so *)
(* enabled is False and a pass of _main_loop is the test of self.running,  *)
(* the test of self.enabled and time.sleep(self.check_interval).  A thread *)
(* runs as soon as it can: time passes only when no thread has a step to   *)
(* take.                                                                   *)
(***************************************************************************)
JOIN_TIMEOUT_MS == 2000             \* self.thread.join(timeout=2.0)

\* check_interval as the configuration gives it: the default, or a file's
\* value longer than the join of stop() waits
CheckIntervals == { CHECK_INTERVAL_MS, JOIN_TIMEOUT_MS + CHECK_INTERVAL_MS }

LifeIdle ==
    /\ check_interval = CHECK_INTERVAL_MS
    /\ threads = <<>>
    /\ thread = 0
    /\ caller_pc = "idle"
    /\ join_deadline = 0
    /\ last_call = "none"

LifeInit ==
    /\ check_interval \in CheckIntervals
    /\ threads = <<>>
    /\ thread = 0
    /\ caller_pc = "idle"
    /\ join_deadline = 0
    /\ last_call = "none"

\* the kill variables start() and stop() do not write
tickVars == <<enabled, hotkey_pressed, pc, use_console_commands, hero_mana,
              hero_channeling, hero_invisible, abilities, enemies,
              last_check_time, cast_log, last_attempt, pending_cast>>

is_alive_thread(t) == t # 0 /\ threads[t].pc # "exit"

\* start(): nothing when self.running, else a new thread at the top of
\* _main_loop
start_call ==
    /\ caller_pc = "idle"
    /\ IF running
       THEN /\ last_call' = "start ignored"
            /\ UNCHANGED <<running, threads, thread>>
       ELSE /\ Len(threads) < MaxThreads
            /\ running' = TRUE
            /\ threads' = Append(threads, [pc |-> "check", wake |-> clock])
            /\ thread' = Len(threads) + 1
            /\ last_call' = "start"
    /\ UNCHANGED <<clock, check_interval, caller_pc, join_deadline>>

\* stop() up to its join: self.running = False, then the join if the thread
\* is alive
stop_call ==
    /\ caller_pc = "idle"
    /\ running' = FALSE
    /\ IF is_alive_thread(thread)
       THEN /\ caller_pc' = "join"
            /\ join_deadline' = clock + JOIN_TIMEOUT_MS
            /\ last_call' = "stop joining"
       ELSE /\ last_call' = "stop"
            /\ UNCHANGED <<caller_pc, join_deadline>>
    /\ UNCHANGED <<clock, check_interval, threads, thread>>

\* the join of stop() returns: the thread ended, or the timeout passed
stop_return ==
    /\ caller_pc = "join"
    /\ ~ is_alive_thread(thread) \/ clock >= join_deadline
    /\ caller_pc' = "idle"
    /\ last_call' = IF is_alive_thread(thread) THEN "stop timed out" ELSE "stop"
    /\ UNCHANGED <<clock, running, check_interval, threads, thread,
                   join_deadline>>

\* thread i at `while self.running:`; with enabled False the pass goes on to
\* time.sleep(self.check_interval)
loop_pass(i) ==
    /\ threads[i].pc = "check"
    /\ threads' = [threads EXCEPT
                      ![i] = IF running
                             THEN [pc |-> "sleep", wake |-> clock + check_interval]
                             ELSE [pc |-> "exit", wake |-> clock]]
    /\ UNCHANGED <<clock, running, check_interval, thread, caller_pc,
                   join_deadline, last_call>>

\* time.sleep of thread i returns
loop_wake(i) ==
    /\ threads[i].pc = "sleep"
    /\ clock >= threads[i].wake
    /\ threads' = [threads EXCEPT ![i].pc = "check"]
    /\ UNCHANGED <<clock, running, check_interval, thread, caller_pc,
                   join_deadline, last_call>>

\* some thread, or the join, has a step to take now
StepPending ==
    \/ \E i \in 1..Len(threads) :
          \/ threads[i].pc = "check"
          \/ threads[i].pc = "sleep" /\ clock >= threads[i].wake
    \/ caller_pc = "join"
          /\ (~ is_alive_thread(thread) \/ clock >= join_deadline)

time_passes ==
    /\ ~ StepPending
    /\ clock + CHECK_INTERVAL_MS <= StartTime + MaxLifeSteps * CHECK_INTERVAL_MS
    /\ clock' = clock + CHECK_INTERVAL_MS
    /\ UNCHANGED <<running, lifeVars>>

LifeNext ==
    \/ start_call /\ UNCHANGED <<wardVars, regionVars, configVars, tickVars>>
    \/ stop_call /\ UNCHANGED <<wardVars, regionVars, configVars, tickVars>>
    \/ stop_return /\ UNCHANGED <<wardVars, regionVars, configVars, tickVars>>
    \/ \E i \in 1..Len(threads) :
          loop_pass(i) /\ UNCHANGED <<wardVars, regionVars, configVars, tickVars>>
    \/ \E i \in 1..Len(threads) :
          loop_wake(i) /\ UNCHANGED <<wardVars, regionVars, configVars, tickVars>>
    \/ time_passes /\ UNCHANGED <<wardVars, regionVars, configVars, tickVars>>

(***************************************************************************)
(* The specifications: the two programs and the classifier are separate    *)
(* processes, each explored on its own with the others at rest.            *)
(***************************************************************************)
InitWard == WardInit /\ RegionIdle /\ KillIdle /\ ConfigInit /\ LifeIdle

SpecWard == InitWard /\ [][WardNext]_vars

InitRegion == WardInit /\ RegionIdle /\ KillIdle /\ ConfigInit /\ LifeIdle

SpecRegion == InitRegion /\ [][RegionNext]_vars

InitTimeline == WardInit /\ RegionIdle /\ KillIdle /\ ConfigInit /\ LifeIdle

SpecTimeline == InitTimeline /\ [][TimelineNext]_vars

InitKill == WardInit /\ RegionIdle /\ KillInit /\ ConfigInit /\ LifeIdle

SpecKill == InitKill /\ [][KillNext]_vars

\* a step of the thread that runs _main_loop
main_loop ==
    (main_loop_check \/ update_game_state \/ killsteal \/ killsteal_resume
        \/ main_loop_sleep)
        /\ UNCHANGED exceptKill

SpecKillCaller == InitKill /\ [][CallerNext]_vars

\* the loop thread, once started, is scheduled again and again
SpecKillFair == SpecKill /\ WF_vars(main_loop)

InitConfig == WardInit /\ RegionIdle /\ KillIdle /\ ConfigInit /\ LifeIdle

SpecConfig == InitConfig /\ [][ConfigNext]_vars

InitLife == WardInit /\ RegionIdle /\ KillIdle /\ ConfigInit /\ LifeInit

SpecLife == InitLife /\ [][LifeNext]_vars

(***************************************************************************)
(* Properties of the ward tracker (checked under SpecWard).                *)
(***************************************************************************)
SameWard(a, b) == a.name = b.name /\ a.region = b.region

\* C1: two detections of the same kind in the same region less than the
\* duplicate window (2.0 s) apart leave at most one entry in tracked_items,
\* also when both come out of the same pass.
C1_OneEntryPerWindow ==
    \A i, j \in 1..Len(tracked_items) :
        (i < j /\ SameWard(tracked_items[i], tracked_items[j]))
            => Abs(tracked_items[j].added_time - tracked_items[i].added_time)
                  >= DUPLICATE_THRESHOLD_SECONDS * 1000

\* C6: the sweep at time now removes exactly the entries with
\* expiry <= now, keeps the others unchanged and in order, renders one line
\* per kept entry, and an entry's remaining time decreases as now grows.
C6_SweepRemovesExpired ==
    [][ /\ (last_op' = "overlay") =>
            /\ tracked_items' =
                  SelectSeq(tracked_items, LAMBDA item : item.expiry > now)
            /\ \A i \in 1..Len(tracked_items) :
                  tracked_items[i].expiry <= now =>
                      \A j \in 1..Len(tracked_items') :
                          tracked_items'[j] # tracked_items[i]
            /\ Len(active_messages') = Len(tracked_items')
            /\ \A j \in 1..Len(tracked_items') :
                  /\ tracked_items'[j].expiry - now > 0
                  /\ active_messages'[j].name = tracked_items'[j].name
                  /\ active_messages'[j].region = tracked_items'[j].region
        /\ \A i \in 1..Len(tracked_items) :
              now' > now =>
                  tracked_items[i].expiry - now' < tracked_items[i].expiry - now
      ]_vars

\* a sweep that dropped an expired entry (one with expiry = now among them)
\* and kept a live one
C6_Witness ==
    /\ last_op = "overlay"
    /\ removed > 0
    /\ tracked_items # <<>>
    /\ now = ITEM_DURATIONS[ObserverWard] * 1000

ShownSeconds(message) == message.minutes * 60 + message.seconds

\* C7 as stated: no rendered line shows 0:00 or less.
C7_NeverShowsZero ==
    \A i \in 1..Len(active_messages) : ShownSeconds(active_messages[i]) > 0

\* C7 as amended: every rendered line is for an entry whose remaining time is
\* strictly positive and shows that time truncated to whole seconds, which is
\* never negative (and is 0:00 during the entry's last second).
C7_ShowsTruncatedPositiveRemaining ==
    last_op = "overlay" =>
        /\ Len(active_messages) = Len(tracked_items)
        /\ \A i \in 1..Len(active_messages) :
            LET left == tracked_items[i].expiry - now
                shown == ShownSeconds(active_messages[i])
            IN  /\ left > 0
                /\ shown >= 0
                /\ active_messages[i].seconds \in 0..59
                /\ shown * 1000 <= left
                /\ left < (shown + 1) * 1000

\* a rendered line reading 0:00 for an entry with half a second left
C7_Witness ==
    /\ last_op = "overlay"
    /\ \E i \in 1..Len(active_messages) :
        /\ ShownSeconds(active_messages[i]) = 0
        /\ tracked_items[i].expiry - now = 500

\* C10: the store never holds an entry of a zero-lifetime kind, and a pass
\* whose detections are all of such a kind leaves the store as it was.
ZeroLifetime(name) == name \in DOMAIN ITEM_DURATIONS /\ ITEM_DURATIONS[name] = 0

C10_ZeroLifetimeNeverStored ==
    /\ [](\A i \in 1..Len(tracked_items) : ~ ZeroLifetime(tracked_items[i].name))
    /\ [][ ( /\ last_op' = "detect"
             /\ \A k \in 1..Len(frame') : ZeroLifetime(frame'[k].label) )
           => tracked_items' = tracked_items ]_vars

\* a pass that saw only Smoke of Deceit, above the confidence threshold, while
\* the store held a ward
C10_Witness ==
    /\ last_op = "detect"
    /\ frame # <<>>
    /\ \A k \in 1..Len(frame) :
          /\ frame[k].label = SmokeOfDeceit
          /\ frame[k].confidence > CONFIDENCE_THRESHOLD
    /\ tracked_items # <<>>

(***************************************************************************)
(* Properties of the ward scenarios (checked under SpecTimeline).          *)
(***************************************************************************)
ObserverAtTopLeft == RawDetection(ObserverWard, 90, <<10, 10>>)

\* the entry of an observer ward first seen at t = 0 in the top left cell
FirstEntry ==
    [id |-> <<ObserverWard, "Top Lane (Radiant)", 0>>,
     name |-> ObserverWard,
     expiry |-> 360 * 1000,
     region |-> "Top Lane (Radiant)",
     added_time |-> 0]

\* C12: an "Observer Ward" detected at normalized (0.1, 0.1) at t = 0 is
\* inserted with region "Top Lane (Radiant)" and expiry 360 s; a second
\* detection of the same kind at the same place at t = 1 s is discarded (the
\* store and the entry's expiry are unchanged); the sweep at t = 361 s
\* removes the entry.
C12_WardScenario ==
    [][ /\ ( /\ last_op' = "detect" /\ now = 0
             /\ tracked_items = <<>>
             /\ frame' = <<ObserverAtTopLeft>> )
            => tracked_items' = <<FirstEntry>>
        /\ ( /\ last_op' = "detect" /\ now = 1000
             /\ tracked_items = <<FirstEntry>>
             /\ frame' = <<ObserverAtTopLeft>> )
            => tracked_items' = <<FirstEntry>>
        /\ ( /\ last_op' = "overlay" /\ now = 361 * 1000
             /\ \E i \in 1..Len(tracked_items) : tracked_items[i] = FirstEntry )
            => /\ \A j \in 1..Len(tracked_items') :
                      tracked_items'[j] # FirstEntry
               /\ removed' >= 1
      ]_vars

\* the second detection, one second after the first, just discarded
C12_Witness ==
    /\ last_op = "detect"
    /\ now = 1000
    /\ frame = <<ObserverAtTopLeft>>
    /\ tracked_items = <<FirstEntry>>

\* row k of a pass is of a tracked kind that has a lifetime
TrackedRow(row) ==
    /\ row.confidence > CONFIDENCE_THRESHOLD
    /\ row.label \in DOMAIN ITEM_DURATIONS
    /\ ITEM_DURATIONS[row.label] > 0

RowRegion(row) ==
    obter_regiao_do_mapa(row.center_x, row.center_y, FrameWidth, FrameHeight)

\* C18: a pass changes no stored entry (first-seen times are never
\* refreshed) and compares a detection only with the first-seen times of the
\* entries stored before it: a ward seen within 2.0 s of the first-seen time
\* of an entry of its kind and region adds nothing (the pass at 1.5 s), and
\* one seen 2.0 s or more after every such entry is inserted as a new entry
\* (the pass at 3.0 s), whatever was re-detected in between.
C18_WindowFromFirstSeen ==
    [][ last_op' = "detect" =>
          /\ Len(tracked_items') >= Len(tracked_items)
          /\ SubSeq(tracked_items', 1, Len(tracked_items)) = tracked_items
          /\ \A k \in 1..Len(frame') :
                TrackedRow(frame'[k]) =>
                  LET recent ==
                        \E i \in 1..Len(tracked_items) :
                            /\ tracked_items[i].name = frame'[k].label
                            /\ tracked_items[i].region = RowRegion(frame'[k])
                            /\ now - tracked_items[i].added_time
                                  < DUPLICATE_THRESHOLD_SECONDS * 1000
                      added ==
                        \E j \in (Len(tracked_items) + 1)..Len(tracked_items') :
                            /\ tracked_items'[j].name = frame'[k].label
                            /\ tracked_items'[j].region = RowRegion(frame'[k])
                            /\ tracked_items'[j].added_time = now
                  IN  added <=> ~ recent
      ]_vars

\* after the pass at 3.0 s the store holds two live entries for one kind and
\* region, first seen at 0 and at 3.0 s
C18_Witness ==
    /\ last_op = "detect"
    /\ now = 2 * DETECTION_INTERVAL_MS
    /\ \E i, j \in 1..Len(tracked_items) :
          /\ SameWard(tracked_items[i], tracked_items[j])
          /\ tracked_items[i].added_time = 0
          /\ tracked_items[j].added_time = 2 * DETECTION_INTERVAL_MS
          /\ tracked_items[i].expiry > now
          /\ tracked_items[j].expiry > now

(***************************************************************************)
(* Properties of the region classifier (checked under SpecRegion).         *)
(***************************************************************************)
Called == region_out # NotCalled

\* C8: for a screen with width > 0 and height > 0 and a pixel with
\* x / width and y / height in [0, 1] the classifier returns one of the
\* named region labels (the grid's, or the explicit fallback).
C8_ClassifierTotal ==
    (Called /\ region_args[3] > 0 /\ region_args[4] > 0)
        => region_out \in GridRegions \cup {RegiaoIndefinida}

\* the corner pixel x = 0, y = 0 and the far corner x = width, y = height of
\* a screen, each classified into a grid cell
C8_Witness ==
    /\ Called
    /\ region_args[3] = MaxDim /\ region_args[4] = MaxDim
    /\ \/ region_args[1] = 0 /\ region_args[2] = 0
             /\ region_out = "Top Lane (Radiant)"
       \/ region_args[1] = MaxDim /\ region_args[2] = MaxDim
             /\ region_out = "Bot Lane (Dire)"

\* C9 as stated: some pixel of a screen with nonzero width and height, at a
\* normalized position in [0,1]x[0,1], is covered by no grid cell and gets
\* the fallback label.
C9_GridHasGap ==
    Called \/ ENABLED ( /\ classify
                        /\ region_args'[3] > 0 /\ region_args'[4] > 0
                        /\ region_out' = RegiaoIndefinida )

\* C9 as amended: the grid has no gap; the fallback label is never returned,
\* every pixel of a screen with nonzero width and height is in a grid cell.
C9_FallbackNeverReturned ==
    Called =>
        /\ region_out # RegiaoIndefinida
        /\ (region_args[3] > 0 /\ region_args[4] > 0) => region_out \in GridRegions

\* the far edge x = width of a screen, which only the bands' final else covers
C9_Witness ==
    /\ Called
    /\ region_args[3] > 0 /\ region_args[4] > 0
    /\ region_args[1] = region_args[3]
    /\ region_out \in {"Top Lane/Jungle (Dire)", "Jungle (Dire)", "Bot Lane (Dire)"}

(***************************************************************************)
(* Properties of the killsteal tick (checked under SpecKill).              *)
(***************************************************************************)
\* a step in which a call of KillStealManager.killsteal is entered: it runs
\* to its return or to the sleep of its console command, and cast_log' holds
\* the calls of the actuator it makes
KillstealCall == pc = "killsteal" /\ pc' # pc

\* a step in which a call of KillStealManager.killsteal returns
KillstealStep == pc \in {"killsteal", "console"} /\ pc' = "sleep"

\* a step in which a call of killsteal goes to sleep inside its console command
KillstealWaits == pc = "killsteal" /\ pc' = "console"

\* current_time of the call of killsteal that returns in this step
TickTime == IF pc = "console" THEN pending_cast.current_time ELSE clock

RECURSIVE SpentMana(_, _)
SpentMana(log, abs) ==
    IF log = <<>> THEN 0
    ELSE (IF Head(log).success THEN abs[Head(log).ability].mana_cost ELSE 0)
            + SpentMana(Tail(log), abs)

Succeeded(log, a) ==
    \E i \in 1..Len(log) : log[i].ability = a /\ log[i].success

\* C2 as stated: a cast that fails at the actuator still costs its mana and
\* still stamps the ability's last_cast_time.
C2_FailedCastStillCharged ==
    [][ KillstealStep =>
          \A i \in 1..Len(cast_log') :
              ~ cast_log'[i].success =>
                  /\ hero_mana' <= hero_mana
                         - abilities[cast_log'[i].ability].mana_cost
                  /\ abilities'[cast_log'[i].ability].last_cast_time >= clock
      ]_vars

\* C2 as amended: a cast that fails at the actuator changes nothing; only a
\* successful cast deducts its mana cost, stamps its ability's
\* last_cast_time and stamps last_check_time, and it does so when the
\* actuator has returned.
C2_FailedCastChangesNothing ==
    [][ /\ KillstealStep =>
              /\ hero_mana' = hero_mana - SpentMana(cast_log', abilities)
              /\ \A a \in 1..Len(abilities) :
                    ~ Succeeded(cast_log', a) => abilities'[a] = abilities[a]
              /\ (\A a \in 1..Len(abilities) : ~ Succeeded(cast_log', a))
                    => last_check_time' = last_check_time
        /\ KillstealWaits =>
              /\ hero_mana' = hero_mana
              /\ abilities' = abilities
              /\ last_check_time' = last_check_time
      ]_vars

\* a tick whose only actuator calls failed
C2_Witness ==
    /\ pc = "sleep"
    /\ cast_log # <<>>
    /\ \A i \in 1..Len(cast_log) : ~ cast_log[i].success
    /\ hero_mana \in {g.hero_mana : g \in GameStates}

\* C3: one call of killsteal issues at most one cast command to the
\* actuator; a failed command is not followed by another in the same tick.
C3_OneCommandPerTick == Len(cast_log) <= 1

\* C4: a tick that calls the actuator starts at least killsteal_cooldown
\* after the previous tick that called it, successful or not.
C4_AttemptsCooldownApart ==
    [][ (KillstealCall /\ cast_log' # <<>> /\ last_attempt # -1)
            => clock - last_attempt >= KILLSTEAL_COOLDOWN_MS ]_vars

\* (enemy e, ability a) qualifies at the start of a tick
Qualifies(e, a) ==
    /\ enemies[e].health > 0
    /\ hero_mana >= abilities[a].mana_cost
    /\ clock - abilities[a].last_cast_time > abilities[a].cooldown * 1000
    /\ enemies[e].health * 100
          < abilities[a].damage * (100 - enemies[e].magic_resistance)

FirstPair(e, a) ==
    /\ Qualifies(e, a)
    /\ \A a2 \in 1..(a - 1) : ~ Qualifies(e, a2)
    /\ \A e2 \in 1..(e - 1) : \A a2 \in 1..Len(abilities) : ~ Qualifies(e2, a2)

\* C5: every cast command of a tick is for the first alive enemy in list
\* order that has a qualifying ability, with the first qualifying ability in
\* the hero's order; no other enemy is cast on in that tick.
C5_OnlyFirstQualifyingPair ==
    [][ KillstealCall =>
          \A i \in 1..Len(cast_log') :
              FirstPair(cast_log'[i].enemy, cast_log'[i].ability) ]_vars

\* some (enemy, ability) pair qualifies in the current state
SomePairQualifies ==
    \E e \in 1..Len(enemies) : \E a \in 1..Len(abilities) : Qualifies(e, a)

GateOpen == clock - last_check_time >= KILLSTEAL_COOLDOWN_MS

\* C11: a call of killsteal that issues no cast command (the hero is
\* channeling or invisible, the global cooldown gate aborts it, or no pair
\* qualifies) leaves hero mana, every ability with its last_cast_time, and
\* last_check_time unchanged; and each of the three reasons does end the
\* call without a cast command.
C11_NoCastNoMutation ==
    [][ /\ (KillstealStep /\ cast_log' = <<>>) =>
                /\ hero_mana' = hero_mana
                /\ abilities' = abilities
                /\ last_check_time' = last_check_time
                /\ clock' = clock
        /\ (KillstealCall /\ (hero_channeling \/ hero_invisible \/ ~ GateOpen
                                 \/ ~ SomePairQualifies))
              => cast_log' = <<>> /\ pc' = "sleep"
      ]_vars

\* a tick that ended without a cast command only because the hero was
\* channeling or invisible: the gate was open and a pair qualified
C11_Witness ==
    /\ pc = "sleep"
    /\ cast_log = <<>>
    /\ hero_channeling \/ hero_invisible
    /\ GateOpen
    /\ SomePairQualifies

\* the hero is free to act in the current state
HeroFree == ~ hero_channeling /\ ~ hero_invisible

\* C13: a successful cast of ability a in a tick that started at time now
\* takes exactly a's mana cost from the hero's mana, stamps a's
\* last_cast_time and stamps last_check_time with now; a cast command is only
\* issued on an enemy whose health is strictly below the effective damage.
\* With mana 200, one ready ability of damage 280 and cost 120 and one enemy
\* of health 209 and resistance 0.25 the command is issued, and once it
\* succeeds mana is 80 and last_check_time is now; with health 210 no command
\* is issued.
C13_SuccessfulCast ==
    [][ /\ KillstealStep =>
              /\ \A i \in 1..Len(cast_log') :
                    LET a == cast_log'[i].ability
                    IN  cast_log'[i].success =>
                          /\ hero_mana' = hero_mana - abilities[a].mana_cost
                          /\ abilities'[a].last_cast_time >= TickTime
                          /\ abilities'[a].last_cast_time = clock'
                          /\ last_check_time' = TickTime
              /\ ( /\ abilities = ConfiguredAbilities /\ hero_mana = 200
                   /\ cast_log' = << [enemy |-> 1, ability |-> 1,
                                      success |-> TRUE] >> )
                  => hero_mana' = 80 /\ last_check_time' = TickTime
        /\ KillstealCall =>
              /\ \A i \in 1..Len(cast_log') :
                    LET a == cast_log'[i].ability
                        e == cast_log'[i].enemy
                    IN  enemies[e].health * 100
                          < abilities[a].damage
                              * (100 - enemies[e].magic_resistance)
              /\ ( /\ abilities = ConfiguredAbilities /\ hero_mana = 200
                   /\ GateOpen /\ HeroFree
                   /\ enemies = << Enemy("enemy1", 209, 25) >> )
                  => /\ Len(cast_log') >= 1
                     /\ cast_log'[1].ability = 1 /\ cast_log'[1].enemy = 1
              /\ ( /\ abilities = ConfiguredAbilities
                   /\ enemies = << Enemy("enemy1", 210, 25) >> )
                  => cast_log' = <<>>
      ]_vars

\* the scenario's cast has just succeeded: mana 80, last_check_time stamped
\* with the time the tick started
C13_Witness ==
    /\ pc = "sleep"
    /\ Len(abilities) = 1 /\ abilities[1].mana_cost = 120
    /\ enemies = << Enemy("enemy1", 209, 25) >>
    /\ cast_log = << [enemy |-> 1, ability |-> 1, success |-> TRUE] >>
    /\ hero_mana = 80
    /\ last_check_time \in {clock, clock - CONSOLE_SLEEP_MS}

\* C14: no cast command is ever issued for an ability whose mana cost exceeds
\* the hero's mana, lethal or not (mana 100, cost 120, enemy health 10 with
\* resistance 0: no command), so a polled mana that is not negative is not
\* negative after the tick either.
C14_NoCastBeyondMana ==
    [][ /\ KillstealCall =>
              /\ \A i \in 1..Len(cast_log') :
                    abilities[cast_log'[i].ability].mana_cost <= hero_mana
              /\ ( /\ abilities = ConfiguredAbilities /\ hero_mana = 100
                   /\ enemies = << Enemy("enemy1", 10, 0) >> )
                  => cast_log' = <<>> /\ hero_mana' = 100
        /\ (KillstealCall \/ KillstealStep) =>
              (hero_mana >= 0 => hero_mana' >= 0)
      ]_vars

\* the tick of the scenario: nothing but the mana test stood in the way
C14_Witness ==
    /\ pc = "sleep"
    /\ abilities = ConfiguredAbilities
    /\ hero_mana = 100
    /\ enemies = << Enemy("enemy1", 10, 0) >>
    /\ GateOpen /\ HeroFree
    /\ cast_log = <<>>

\* a step that is one call of update_game_state
UpdateStep == pc = "update" /\ pc' = "killsteal"

\* C17: an ability is cast successfully only when more than its cooldown
\* has passed since its last_cast_time (a strict test), over any number of
\* ticks: update_game_state replaces hero mana, the two flags and the enemy
\* list with what the state source reports and leaves every ability, with
\* its last_cast_time, as it was.
C17_NoRecastWithinCooldown ==
    [][ /\ KillstealCall =>
              \A i \in 1..Len(cast_log') :
                  cast_log'[i].success =>
                      clock - abilities[cast_log'[i].ability].last_cast_time
                          > abilities[cast_log'[i].ability].cooldown * 1000
        /\ UpdateStep =>
              /\ abilities' = abilities
              /\ \E g \in GameStates :
                    /\ hero_mana' = g.hero_mana
                    /\ hero_channeling' = g.hero_channeling
                    /\ hero_invisible' = g.hero_invisible
                    /\ enemies' = g.enemies
      ]_vars

\* a tick exactly one cooldown after an ability's cast: the hero is free, the
\* global gate is open, mana suffices and the enemy is in range, and the
\* ability is not cast
C17_Witness ==
    /\ pc = "sleep"
    /\ cast_log = <<>>
    /\ GateOpen /\ HeroFree
    /\ \E e \in 1..Len(enemies) : \E a \in 1..Len(abilities) :
          /\ enemies[e].health > 0
          /\ hero_mana >= abilities[a].mana_cost
          /\ enemies[e].health * 100
                < abilities[a].damage * (100 - enemies[e].magic_resistance)
          /\ abilities[a].last_cast_time > 0
          /\ clock - abilities[a].last_cast_time = abilities[a].cooldown * 1000

\* the loop thread is inside the part of a tick guarded by `if self.enabled`
InTick == pc \in {"update", "killsteal", "console"}

\* C16: the loop refreshes the game state and evaluates killsteal in a tick
\* only if the flag was true when the tick read it, and it reads the flag in
\* every tick; the flag starts false, so before the first toggle no tick is
\* entered and no cast command is issued; a tick that reads the flag as
\* false issues none, so after a toggle to disabled only a tick already past
\* its reading of the flag can still cast; and a flag left disabled is seen:
\* from some point on the loop enters no tick.
C16_TickOnlyWhenEnabled ==
    /\ (<>[](~ enabled)) => (<>[](~ InTick))
    /\ [](~ hotkey_pressed =>
            /\ ~ enabled
            /\ ~ InTick
            /\ cast_log = <<>> /\ last_attempt = -1
            /\ last_check_time = 0)
    /\ [][ /\ (pc = "check" /\ pc' # "check") =>
                /\ (pc' = "update") <=> (running /\ enabled)
                /\ (running /\ ~ enabled) => pc' = "sleep"
           /\ (InTick' /\ ~ InTick) => (pc = "check" /\ enabled)
           /\ (pc' = "check" /\ pc # "check")
                  => pc \in {"idle", "exit", "sleep"}
           /\ (cast_log' # cast_log \/ last_attempt' # last_attempt)
                  => pc = "killsteal"
           /\ (hero_mana' # hero_mana \/ abilities' # abilities
                  \/ last_check_time' # last_check_time) => InTick
           /\ (pc = "killsteal" /\ pc' # pc) => pc' \in {"sleep", "console"}
           /\ (pc = "console" /\ pc' # pc) => pc' = "sleep"
           /\ (pc = "update" /\ pc' # pc) => pc' = "killsteal"
         ]_vars

\* the flag was toggled to disabled while a tick was in flight, and that tick
\* went on to issue a cast command
C16_Witness ==
    /\ pc = "sleep"
    /\ ~ enabled
    /\ hotkey_pressed
    /\ cast_log # <<>>

(***************************************************************************)
(* Properties of ConfigManager (checked under SpecConfig).                 *)
(***************************************************************************)
\* what a dict object holds, the dicts under its keys included
RECURSIVE contents(_, _)
contents(h, d) ==
    [k \in DOMAIN h[d] |->
        IF h[d][k].kind = "dict"
        THEN [kind |-> "dict", items |-> contents(h, h[d][k].ref)]
        ELSE h[d][k]]

\* what the pairs of a JSON dict hold
RECURSIVE json_contents(_)
json_contents(items) ==
    [k \in {items[i].k : i \in 1..Len(items)} |->
        LET v == (CHOOSE i \in 1..Len(items) : items[i].k = k)
        IN  IF items[v].v.kind = "dict"
            THEN [kind |-> "dict", items |-> json_contents(items[v].v.items)]
            ELSE items[v].v]

\* defaults d merged key by key with file f: a key of f overrides, two dicts
\* under one key are merged in turn, a key absent from f keeps d's value
RECURSIVE Merged(_, _)
Merged(d, f) ==
    [k \in DOMAIN d \cup DOMAIN f |->
        IF k \notin DOMAIN f THEN d[k]
        ELSE IF k \in DOMAIN d /\ d[k].kind = "dict" /\ f[k].kind = "dict"
        THEN [kind |-> "dict", items |-> Merged(d[k].items, f[k].items)]
        ELSE f[k]]

\* the built-in defaults, as the class statement wrote them
BuiltInDefaults == contents(InitialHeap, 1)

Readable(file) == file.exists /\ file.parses /\ file.json.kind = "dict"

\* C15: a ConfigManager constructed from a missing or unparsable file has
\* exactly the contents of DEFAULT_CONFIG as its configuration; one
\* constructed from a readable file has DEFAULT_CONFIG merged key by key
\* with the file: each key of the file overrides, dicts under one key are
\* merged recursively, and each key absent from the file keeps its default.
\* DEFAULT_CONFIG is read as it is when the file is loaded (the built-in
\* contents in the first construction of a process).
C15_LoadFallsBackToDefaults ==
    [][ config_op' = "init" =>
          LET config == contents(heap', configs'[Len(configs')])
              defaults == contents(heap, 1)
          IN  /\ Len(configs') = Len(configs) + 1
              /\ IF Readable(loaded')
                 THEN config = Merged(defaults, json_contents(loaded'.json.items))
                 ELSE config = defaults
              /\ configs = <<>> =>
                    IF Readable(loaded')
                    THEN config = Merged(BuiltInDefaults,
                                         json_contents(loaded'.json.items))
                    ELSE config = BuiltInDefaults
      ]_vars

\* a file that overrides one hero's abilities was loaded: that hero has the
\* file's value, the other hero and the top-level keys have their defaults
C15_Witness ==
    /\ config_op = "init"
    /\ Len(configs) = 1
    /\ Readable(loaded)
    /\ LET config == contents(heap, configs[1])
       IN  /\ config["hero_abilities"].kind = "dict"
           /\ config["hero_abilities"].items["npc_dota_hero_lina"]
                  = Val("[custom]")
           /\ config["hero_abilities"].items["npc_dota_hero_lion"]
                  = BuiltInDefaults["hero_abilities"].items["npc_dota_hero_lion"]
           /\ config["check_interval"] = Val("0.5")

\* C19: whatever ConfigManager objects are constructed and whatever set
\* calls are made, DEFAULT_CONFIG, its hero_abilities dict included, keeps
\* its original contents.
C19_DefaultsNeverModified == contents(heap, 1) = BuiltInDefaults

(***************************************************************************)
(* Properties of start() and stop() (checked under SpecLife).              *)
(***************************************************************************)
\* thread i passes `while self.running` and begins a pass of the loop
BeginsPass(i) ==
    /\ i \in 1..Len(threads)
    /\ threads[i].pc = "check"
    /\ threads'[i].pc = "sleep"

\* C20: over any calls of start() and stop(), only one thread executes
\* passes of _main_loop: a start() while running creates no thread, a stop()
\* whose join ended in time leaves its thread ended, and once stop() has
\* returned and start() has created a new thread, the previous thread begins
\* no further pass (only self.thread, the thread created last, does).
C20_OneLoopThread ==
    /\ [](last_call = "stop" => ~ is_alive_thread(thread))
    /\ [][ /\ (last_call' = "start ignored" /\ last_call # "start ignored")
                => (threads' = threads /\ thread' = thread /\ running' = running)
           /\ \A i \in 1..MaxThreads : BeginsPass(i) => i = thread
         ]_vars

====
